---------------------------- MODULE Spec2Model ----------------------------
(***************************************************************************)
(* OpflowQNN (qiskit_machine_learning/neural_networks/opflow_qnn.py): the   *)
(* adapter that turns a parametrized opflow operator into a neural network. *)
(*                                                                          *)
(* The adapter's fields are the state; __init__, _forward, _backward_batch  *)
(* and _backward are the actions.  numpy arrays are records                 *)
(* [shape, data] with the data in C (row-major) order; a raised exception   *)
(* is a result with ok = FALSE.  The opflow engine (bind_parameters, eval,  *)
(* CircuitSampler.convert, Gradient.convert) is deterministic and its       *)
(* numbers are symbolic: the forward value of output component o under a    *)
(* binding b is the record [fn |-> "value", at |-> b, out |-> o], the       *)
(* derivative with respect to parameter q is                                *)
(* [fn |-> "derivative", wrt |-> q, at |-> b, out |-> o].                   *)
(***************************************************************************)
EXTENDS Integers, Sequences, FiniteSets, TLC

\* Longest input_params / weight_params list.
MaxParams == 2
\* Largest batch (rows of input_data).
MaxBatch == 2
\* Longest oplist of a ListOp.
MaxChildren == 2

VARIABLES
    pc,                 \* "new" | "ready" | "failed": before / after __init__
    supplied,           \* the quantum_instance argument __init__ was given
    raised,             \* the exception __init__ raised ("" when none)
    operator,
    input_params,
    weight_params,
    exp_val,
    gradient,
    quantum_instance,   \* self._quantum_instance
    circuit_sampler,    \* self._circuit_sampler: an instance id, or NoSampler
    gradient_sampler,   \* self._gradient_sampler: an instance id, or NoSampler
    forward_operator,
    gradient_operator,
    num_inputs,
    num_weights,
    output_shape,
    sampler_cache,      \* instance id -> the expression the sampler cached last
    constructed,        \* the fields as __init__ left them (history variable)
    last,               \* the latest _forward/_backward/_backward_batch call
    repeat              \* the latest call compared with the one before it

fields == <<operator, input_params, weight_params, exp_val, gradient,
            quantum_instance, circuit_sampler, gradient_sampler,
            forward_operator, gradient_operator, num_inputs, num_weights,
            output_shape>>

vars == <<pc, supplied, raised, operator, input_params, weight_params, exp_val,
          gradient, quantum_instance, circuit_sampler, gradient_sampler,
          forward_operator, gradient_operator, num_inputs, num_weights,
          output_shape, sampler_cache, constructed, last, repeat>>

None == "None"

-----------------------------------------------------------------------------
(* Sequences and shapes *)

Range(s) == {s[i] : i \in 1..Len(s)}

RECURSIVE Prod(_)
Prod(shape) == IF shape = <<>> THEN 1 ELSE Head(shape) * Prod(Tail(shape))

\* Python's dict comprehension over enumerate(params): a later duplicate key
\* overwrites an earlier one, so a key keeps its last index.
LastIndex(params, q) ==
    CHOOSE i \in 1..Len(params) :
        /\ params[i] = q
        /\ \A j \in (i + 1)..Len(params) : params[j] # q

\* n copies of v: [v] * n.
Repeat(v, n) == [r \in 1..n |-> v]

\* Concatenation of the sequences blocks[1], ..., blocks[k].
RECURSIVE Flatten(_)
Flatten(blocks) ==
    IF blocks = <<>> THEN <<>> ELSE Head(blocks) \o Flatten(Tail(blocks))

-----------------------------------------------------------------------------
(* numpy *)

Arr(shape, data) == [ok |-> TRUE, err |-> "", shape |-> shape, data |-> data]
Err(e) == [ok |-> FALSE, err |-> e, shape |-> <<>>, data |-> <<>>]

\* arr.reshape(-1, *dims): the free axis is size / prod(dims); numpy raises
\* ValueError when prod(dims) is 0 (the free axis cannot be inferred) or does not
\* divide the size.
Reshape(arr, dims) ==
    IF ~arr.ok THEN arr
    ELSE LET known == Prod(dims)
             size == Len(arr.data)
         IN IF known = 0 \/ size % known # 0
            THEN Err("ValueError")
            ELSE Arr(<<size \div known>> \o dims, arr.data)

\* arr[:, lo:hi] with 0 <= lo <= hi (python's half-open, clipped slice of the
\* second axis); IndexError on an array with fewer than two axes.
SliceCols(arr, lo, hi) ==
    IF ~arr.ok THEN arr
    ELSE IF Len(arr.shape) < 2 THEN Err("IndexError")
    ELSE LET n == arr.shape[1]
             m == arr.shape[2]
             rest == SubSeq(arr.shape, 3, Len(arr.shape))
             inner == Prod(rest)
             from == IF lo > m THEN m ELSE lo
             to == IF hi > m THEN m ELSE hi
             width == IF to > from THEN to - from ELSE 0
             block(r) == [t \in 1..(width * inner) |->
                            arr.data[(r - 1) * m * inner + from * inner + t]]
         IN Arr(<<n, width>> \o rest, Flatten([r \in 1..n |-> block(r)]))

\* grad_all[row, :] = grad, for a row of length m: the value broadcasts when it
\* is a scalar, or all its axes but the last are 1 and the last is 1 or m;
\* otherwise numpy raises ValueError.
CanAssignRow(shape, m) ==
    \/ shape = <<>>
    \/ /\ \A i \in 1..(Len(shape) - 1) : shape[i] = 1
       /\ shape[Len(shape)] \in {1, m}

RowValues(grad, m) ==
    IF grad.shape # <<>> /\ grad.shape[Len(grad.shape)] = m
    THEN grad.data
    ELSE Repeat(grad.data[1], m)

-----------------------------------------------------------------------------
(* Operator expressions *)

Leaf == [tag |-> "PrimitiveOp"]
ListOp(oplist, combo_fn) ==
    [tag |-> "ListOp", oplist |-> oplist, combo_fn |-> combo_fn]

\* combo_fn: ListOp's default (the identity) and a reduction over the first axis.
ComboFns == {"identity", "sum_axis0"}

SeqsUpTo(S, k) == UNION {[1..n -> S] : n \in 0..k}

\* ListOps of leaves.
FlatOps == {ListOp(l, c) : l \in SeqsUpTo({Leaf}, MaxChildren), c \in ComboFns}
\* Operators nested at most one deep.
Ops == {Leaf} \cup FlatOps
\* ListOps of those, and ListOps around one of these: nested up to three deep.
NestedOps == {ListOp(l, c) : l \in SeqsUpTo(Ops, MaxChildren), c \in ComboFns}
DeepOps ==
    Ops \cup NestedOps \cup {ListOp(<<op>>, c) : op \in NestedOps, c \in ComboFns}

\* The shape of combo_fn's result on an array of the given shape.
ComboShape(combo_fn, shape) ==
    IF combo_fn = "identity" THEN shape ELSE Tail(shape)

ShapeOk(shape) == [ok |-> TRUE, err |-> "", shape |-> shape]
ShapeErr(e) == [ok |-> FALSE, err |-> e, shape |-> <<>>]

\* A plausible slip in the shape comparison: the ranks are compared, not the shapes.
SameRank(shapes) ==
    \A i \in 1..Len(shapes) : Len(shapes[i].shape) = Len(shapes[1].shape)

\* np.all([shape == shapes[0] for shape in shapes])
AllSameShape(shapes) ==
    \A i \in 1..Len(shapes) : shapes[i].shape = shapes[1].shape

\* OpflowQNN._get_output_shape_from_op
RECURSIVE GetOutputShapeFromOp(_)
GetOutputShapeFromOp(op) ==
    IF op.tag = "ListOp"
    THEN LET k == Len(op.oplist)
             shapes == [i \in 1..k |-> GetOutputShapeFromOp(op.oplist[i])]
             failing == {i \in 1..k : ~shapes[i].ok}
         IN IF failing # {}
            THEN shapes[CHOOSE i \in failing : \A j \in failing : i <= j]
            ELSE IF ~AllSameShape(shapes)
            THEN ShapeErr("QiskitMachineLearningError")
            ELSE IF k = 0
            THEN ShapeErr("IndexError")
            ELSE IF shapes[1].shape = <<1>>
            THEN ShapeOk(ComboShape(op.combo_fn, <<k>>))
            ELSE ShapeOk(ComboShape(op.combo_fn, <<k>> \o shapes[1].shape))
    ELSE ShapeOk(<<1>>)

\* The shape of what op.eval() returns for one binding: a scalar for a leaf, the
\* combo_fn of the children's stacked results for a ListOp.
RECURSIVE EvalShape(_)
EvalShape(op) ==
    IF op.tag = "ListOp"
    THEN ComboShape(op.combo_fn, <<Len(op.oplist)>> \o EvalShape(op.oplist[1]))
    ELSE <<>>

-----------------------------------------------------------------------------
(* Parameters, batches and bindings *)

\* Element index of a ParameterVector.
Parameter(name, index) == [name |-> name, index |-> index]
ParameterVector(name, length) == [i \in 1..length |-> Parameter(name, i - 1)]

\* The lists __init__ is given: input_params is a prefix of the vector x,
\* weight_params a prefix of the vector w or (nothing forbids it) of x.
InputParamLists == {ParameterVector("x", k) : k \in 0..MaxParams}
OwnWeightParamLists == {ParameterVector("w", k) : k \in 0..MaxParams}
WeightParamLists ==
    OwnWeightParamLists \cup {ParameterVector("x", k) : k \in 1..MaxParams}

\* The rows a batch is made of: row seed s holds 10*s + j in column j, so equal
\* seeds give equal rows and no two columns of a row are equal.
RowSeeds == {0, 1}
Batches(p) ==
    UNION {{[r \in 1..n |-> [j \in 1..p |-> 10 * seeds[r] + (j - 1)]] :
                seeds \in [1..n -> RowSeeds]} : n \in 1..MaxBatch}
\* The weights: 100 + i at index i, so no weight equals an input value.
WeightVectors(w) == {[i \in 1..w |-> 100 + (i - 1)]}

\* The adapter as one record.
Self ==
    [operator |-> operator, input_params |-> input_params,
     weight_params |-> weight_params, exp_val |-> exp_val, gradient |-> gradient,
     quantum_instance |-> quantum_instance, circuit_sampler |-> circuit_sampler,
     gradient_sampler |-> gradient_sampler, forward_operator |-> forward_operator,
     gradient_operator |-> gradient_operator, num_inputs |-> num_inputs,
     num_weights |-> num_weights, output_shape |-> output_shape]

\* param_values of _forward and _backward_batch: the dict built from the input
\* columns and then updated with the repeated weights.
ParamValues(self, input_data, weights) ==
    LET n == Len(input_data)
        ip == self.input_params
        wp == self.weight_params
    IN [q \in Range(ip) \cup Range(wp) |->
            IF q \in Range(wp)
            THEN Repeat(weights[LastIndex(wp, q)], n)
            ELSE [r \in 1..n |-> input_data[r][LastIndex(ip, q)]]]

\* param_values of _backward for one row: scalars.
RowParamValues(self, input_data, weights, row) ==
    LET ip == self.input_params
        wp == self.weight_params
    IN [q \in Range(ip) \cup Range(wp) |->
            IF q \in Range(wp)
            THEN weights[LastIndex(wp, q)]
            ELSE input_data[row][LastIndex(ip, q)]]

-----------------------------------------------------------------------------
(* The opflow engine, as the handlers use it *)

Value(binding, o) == [fn |-> "value", at |-> binding, out |-> o]
Derivative(q, binding, o) ==
    [fn |-> "derivative", wrt |-> q, at |-> binding, out |-> o]

\* A binding of value lists unrolls into one binding per list position.
Unroll(param_values) ==
    LET n == Len(param_values[CHOOSE q \in DOMAIN param_values : TRUE])
    IN [r \in 1..n |-> [q \in DOMAIN param_values |-> param_values[q][r]]]

\* np.real(forward_operator.bind_parameters(param_values).eval()) and, with a
\* sampler, np.real(sampler.convert(forward_operator, param_values).eval()):
\* one block of results per unrolled binding.  An empty dict names no list, so
\* it carries no batch size: the expression is evaluated once, with no batch axis.
EvalForward(self, param_values) ==
    LET es == EvalShape(self.forward_operator.operator)
        block(b) == [o \in 1..Prod(es) |-> Value(b, o)]
    IN IF DOMAIN param_values = {}
       THEN Arr(es, block(param_values))
       ELSE LET bs == Unroll(param_values)
            IN Arr(<<Len(bs)>> \o es, Flatten([r \in 1..Len(bs) |-> block(bs[r])]))

\* The evaluated gradient expression for one binding: Gradient.convert returns a
\* ListOp with one entry per parameter of its list (in that order), each entry
\* shaped like the operator's own result; with no parameter it evaluates to [].
EvalGradient(self, binding) ==
    LET params == self.gradient_operator.params
        es == EvalShape(self.gradient_operator.operator)
        inner == Prod(es)
    IN IF params = <<>>
       THEN Arr(<<0>>, <<>>)
       ELSE Arr(<<Len(params)>> \o es,
                [t \in 1..(Len(params) * inner) |->
                    Derivative(params[((t - 1) \div inner) + 1], binding,
                               ((t - 1) % inner) + 1)])

\* The same for a binding of value lists: one evaluated gradient per row.
EvalGradientBatch(self, param_values) ==
    IF DOMAIN param_values = {}
    THEN EvalGradient(self, param_values)
    ELSE LET bs == Unroll(param_values)
             g(r) == EvalGradient(self, bs[r])
         IN Arr(<<Len(bs)>> \o g(1).shape, Flatten([r \in 1..Len(bs) |-> g(r).data]))

-----------------------------------------------------------------------------
(* The handlers' results *)

\* OpflowQNN._forward
ForwardResult(self, input_data, weights) ==
    Reshape(EvalForward(self, ParamValues(self, input_data, weights)),
            self.output_shape)

Grads(input_grad, weights_grad) ==
    [ok |-> TRUE, err |-> "", input_grad |-> input_grad,
     weights_grad |-> weights_grad]
Raise(e) ==
    [ok |-> FALSE, err |-> e, input_grad |-> Err(e), weights_grad |-> Err(e)]

\* grad[:, :num_inputs] and grad[:, num_inputs:], each reshaped to
\* (-1, *output_shape, count); the first statement that raises ends the call.
SplitGrad(self, grad) ==
    LET input_grad ==
            Reshape(SliceCols(grad, 0, self.num_inputs),
                    self.output_shape \o <<self.num_inputs>>)
        weights_grad ==
            Reshape(SliceCols(grad, self.num_inputs,
                              IF grad.ok /\ Len(grad.shape) >= 2
                              THEN grad.shape[2] ELSE self.num_inputs),
                    self.output_shape \o <<self.num_weights>>)
    IN IF ~input_grad.ok THEN Raise(input_grad.err)
       ELSE IF ~weights_grad.ok THEN Raise(weights_grad.err)
       ELSE Grads(input_grad, weights_grad)

\* OpflowQNN._backward_batch
BackwardBatchResult(self, input_data, weights) ==
    SplitGrad(self, EvalGradientBatch(self, ParamValues(self, input_data, weights)))

\* OpflowQNN._backward: the rows are evaluated one by one into grad_all; the
\* first row whose gradient does not fit its row of grad_all raises.
BackwardResult(self, input_data, weights) ==
    LET n == Len(input_data)
        m == Len(self.input_params) + Len(self.weight_params)
        grad(row) ==
            EvalGradient(self, RowParamValues(self, input_data, weights, row))
    IN IF \E row \in 1..n : ~CanAssignRow(grad(row).shape, m)
       THEN Raise("ValueError")
       ELSE SplitGrad(self,
                Arr(<<n, m>>, Flatten([row \in 1..n |-> RowValues(grad(row), m)])))

-----------------------------------------------------------------------------
(* The state machine *)

NoCall ==
    [op |-> "none", input_data |-> <<>>, weights |-> <<>>,
     param_values |-> <<>>, result |-> Err("")]

\* What __init__ may be given for exp_val, gradient and quantum_instance.
\* exp_val and gradient are both left out or both given.
Converters == {<<None, None>>, <<"PauliExpectation", "ParamShift">>}
QuantumInstances == {None, "QuantumInstance", "Backend"}

\* self._circuit_sampler = None: no sampler instance.
NoSampler == 0

\* CircuitSampler(...): a new sampler instance.
NewSampler == 1

\* A plausible slip: the gradient sampler is the forward sampler itself.
SameInstance(sampler) == sampler

\* deepcopy(self._circuit_sampler): another instance.
DeepCopy(sampler) == sampler + 1

Init ==
    /\ pc = "new"
    /\ supplied = None
    /\ raised = ""
    /\ operator = None
    /\ input_params = None
    /\ weight_params = None
    /\ exp_val = None
    /\ gradient = None
    /\ quantum_instance = None
    /\ circuit_sampler = NoSampler
    /\ gradient_sampler = NoSampler
    /\ forward_operator = None
    /\ gradient_operator = None
    /\ num_inputs = None
    /\ num_weights = None
    /\ output_shape = None
    /\ sampler_cache = <<>>
    /\ constructed = None
    /\ last = NoCall
    /\ repeat = "none"

\* OpflowQNN.__init__
Construct(op, ip, wp, ev, gr, qi) ==
    LET qinst == IF qi = "Backend" THEN "QuantumInstance" ELSE qi
        csampler == IF qinst # None THEN NewSampler ELSE NoSampler
        gsampler == IF qinst # None THEN DeepCopy(csampler) ELSE NoSampler
        shape == GetOutputShapeFromOp(op)
    IN /\ pc = "new"
       /\ supplied' = qi
       /\ operator' = op
       /\ input_params' = ip
       /\ weight_params' = wp
       /\ exp_val' = ev
       /\ gradient' = IF gr # None THEN gr ELSE "Gradient"
       /\ quantum_instance' = qinst
       /\ circuit_sampler' = csampler
       /\ gradient_sampler' = gsampler
       /\ sampler_cache' = [i \in {csampler, gsampler} \ {NoSampler} |-> "empty"]
       /\ forward_operator' = [converter |-> ev, operator |-> op]
       /\ gradient_operator' =
              [converter |-> gradient', operator |-> op, params |-> ip \o wp]
       /\ IF shape.ok
          THEN /\ num_inputs' = Len(ip)
               /\ num_weights' = Len(wp)
               /\ output_shape' = shape.shape
               /\ raised' = ""
               /\ pc' = "ready"
          ELSE /\ UNCHANGED <<num_inputs, num_weights, output_shape>>
               /\ raised' = shape.err
               /\ pc' = "failed"
       /\ constructed' = Self'
       /\ UNCHANGED <<last, repeat>>

\* The latest call against the one before it: "same"/"differs" when the
\* operation and its arguments are those of the call before.
Compare(op, input_data, weights, result) ==
    IF last.op = op /\ last.input_data = input_data /\ last.weights = weights
    THEN IF last.result = result THEN "same" ELSE "differs"
    ELSE "fresh"

\* sampler.convert(...) leaves the converted expression in the sampler's cache.
Converted(sampler, expression) ==
    IF sampler # NoSampler
    THEN [sampler_cache EXCEPT ![sampler] = expression]
    ELSE sampler_cache

\* A plausible slip: the call consumes the adapter's own weight_params list.
ForwardPopping(input_data, weights) ==
    LET result == ForwardResult(Self, input_data, weights)
    IN /\ pc = "ready"
       /\ last' = [op |-> "forward", input_data |-> input_data,
                   weights |-> weights,
                   param_values |-> ParamValues(Self, input_data, weights),
                   result |-> result]
       /\ repeat' = Compare("forward", input_data, weights, result)
       /\ sampler_cache' = Converted(circuit_sampler, "forward_operator")
       /\ weight_params' = SubSeq(weight_params, 1, Len(weight_params) - 1)
       /\ UNCHANGED <<pc, supplied, raised, constructed, operator, input_params,
                      exp_val, gradient, quantum_instance, circuit_sampler,
                      gradient_sampler, forward_operator, gradient_operator,
                      num_inputs, num_weights, output_shape>>

\* OpflowQNN._forward
Forward(input_data, weights) ==
    LET result == ForwardResult(Self, input_data, weights)
    IN /\ pc = "ready"
       /\ last' = [op |-> "forward", input_data |-> input_data,
                   weights |-> weights,
                   param_values |-> ParamValues(Self, input_data, weights),
                   result |-> result]
       /\ repeat' = Compare("forward", input_data, weights, result)
       /\ sampler_cache' = Converted(circuit_sampler, "forward_operator")
       /\ UNCHANGED <<pc, supplied, raised, constructed, fields>>

\* OpflowQNN._backward_batch
BackwardBatch(input_data, weights) ==
    LET result == BackwardBatchResult(Self, input_data, weights)
    IN /\ pc = "ready"
       /\ last' = [op |-> "backward_batch", input_data |-> input_data,
                   weights |-> weights,
                   param_values |-> ParamValues(Self, input_data, weights),
                   result |-> result]
       /\ repeat' = Compare("backward_batch", input_data, weights, result)
       /\ sampler_cache' = Converted(gradient_sampler, "gradient_operator")
       /\ UNCHANGED <<pc, supplied, raised, constructed, fields>>

\* OpflowQNN._backward
Backward(input_data, weights) ==
    LET result == BackwardResult(Self, input_data, weights)
    IN /\ pc = "ready"
       /\ last' = [op |-> "backward", input_data |-> input_data,
                   weights |-> weights,
                   param_values |-> <<>>,
                   result |-> result]
       /\ repeat' = Compare("backward", input_data, weights, result)
       /\ sampler_cache' = Converted(gradient_sampler, "gradient_operator")
       /\ UNCHANGED <<pc, supplied, raised, constructed, fields>>

\* __init__ on an operator nested at most one deep, with the converters both
\* left out or both given.
New ==
    /\ pc = "new"
    /\ \E op \in Ops, ip \in InputParamLists, wp \in WeightParamLists,
          conv \in Converters,
          qi \in QuantumInstances :
           Construct(op, ip, wp, conv[1], conv[2], qi)

\* __init__ with the converters left out and weight parameters of their own.
NewPlain ==
    /\ pc = "new"
    /\ \E op \in Ops, ip \in InputParamLists, wp \in OwnWeightParamLists,
          qi \in QuantumInstances :
           Construct(op, ip, wp, None, None, qi)

\* __init__ on an operator nested up to three deep.
NewDeep ==
    /\ pc = "new"
    /\ \E op \in DeepOps, ip \in InputParamLists, wp \in OwnWeightParamLists,
          conv \in Converters :
           Construct(op, ip, wp, conv[1], conv[2], None)

CallForward ==
    /\ pc = "ready"
    /\ \E input_data \in Batches(num_inputs),
          weights \in WeightVectors(num_weights) :
           Forward(input_data, weights)

CallBackwardBatch ==
    /\ pc = "ready"
    /\ \E input_data \in Batches(num_inputs),
          weights \in WeightVectors(num_weights) :
           BackwardBatch(input_data, weights)

CallBackward ==
    /\ pc = "ready"
    /\ \E input_data \in Batches(num_inputs),
          weights \in WeightVectors(num_weights) :
           Backward(input_data, weights)

Next == New \/ CallForward \/ CallBackwardBatch \/ CallBackward

\* An adapter over operators nested at most one deep, and the calls on it.
Spec == Init /\ [][Next]_vars

\* The same on adapters built with the defaults.
NextPlain == NewPlain \/ CallForward \/ CallBackwardBatch \/ CallBackward
SpecPlain == Init /\ [][NextPlain]_vars

\* Construction alone, over operators nested up to three deep.
SpecConstruct == Init /\ [][NewDeep]_vars

-----------------------------------------------------------------------------
(* What the claims speak of *)

Called(op) == pc = "ready" /\ last.op = op

\* The batch size of the latest call.
BatchSize == Len(last.input_data)

\* Entry (r, o, j) of an array of shape (n, *output_shape, count), with o the
\* flat index into output_shape (all indices from 1).
Entry(arr, count, r, o, j) ==
    arr.data[((r - 1) * Prod(output_shape) + (o - 1)) * count + j]

\* The binding of row r in the latest call.
RowBinding(r) == RowParamValues(Self, last.input_data, last.weights, r)

\* The handler's result on an adapter and arguments.
ResultOf(op, self, input_data, weights) ==
    CASE op = "forward" -> ForwardResult(self, input_data, weights)
      [] op = "backward" -> BackwardResult(self, input_data, weights)
      [] op = "backward_batch" -> BackwardBatchResult(self, input_data, weights)

\* C1: after _forward on a batch of n rows the result has shape
\* (n, *output_shape), whatever the parameter counts and with or without a sampler.
ForwardShape ==
    Called("forward") =>
        /\ last.result.ok
        /\ last.result.shape = <<BatchSize>> \o output_shape

\* C1, where the binding names at least one parameter.
ForwardShapeWithParams ==
    (Called("forward") /\ num_inputs + num_weights >= 1) =>
        /\ last.result.ok
        /\ last.result.shape = <<BatchSize>> \o output_shape

\* C2 (for p >= 1 and w >= 1): after _backward on a batch of n rows the input
\* gradient has shape (n, *output_shape, p) and the weight gradient
\* (n, *output_shape, w), composite operators included.
BackwardShape ==
    (Called("backward") /\ num_inputs >= 1 /\ num_weights >= 1) =>
        /\ last.result.ok
        /\ last.result.input_grad.shape =
               <<BatchSize>> \o output_shape \o <<num_inputs>>
        /\ last.result.weights_grad.shape =
               <<BatchSize>> \o output_shape \o <<num_weights>>

\* C2, for the operators whose evaluation is a scalar.
BackwardShapeScalar ==
    (/\ Called("backward") /\ num_inputs >= 1 /\ num_weights >= 1
     /\ EvalShape(operator) = <<>>) =>
        /\ last.result.ok
        /\ last.result.input_grad.shape =
               <<BatchSize>> \o output_shape \o <<num_inputs>>
        /\ last.result.weights_grad.shape =
               <<BatchSize>> \o output_shape \o <<num_weights>>

\* C3: on the same adapter, batch and weights, _backward and _backward_batch
\* return the same pair of gradients: when either returns, so does the other,
\* with the same shapes and the same value at every index.
BackwardPathsAgree ==
    /\ Called("backward") =>
          LET other == BackwardBatchResult(Self, last.input_data, last.weights)
          IN (last.result.ok \/ other.ok) => last.result = other
    /\ Called("backward_batch") =>
          LET other == BackwardResult(Self, last.input_data, last.weights)
          IN (last.result.ok \/ other.ok) => last.result = other

\* C4: with an empty weight_params (input_params) list, backward on either path
\* returns, and the weight (input) gradient's last axis has length 0.
EmptyParamsBackward ==
    (Called("backward") \/ Called("backward_batch")) =>
        /\ num_weights = 0 =>
              /\ last.result.ok
              /\ last.result.weights_grad.shape =
                     <<BatchSize>> \o output_shape \o <<0>>
        /\ num_inputs = 0 =>
              /\ last.result.ok
              /\ last.result.input_grad.shape =
                     <<BatchSize>> \o output_shape \o <<0>>

\* C6: in the binding _forward builds, weight_params[i] is bound to n copies of
\* weights[i] and input_params[i] to column i of the batch, and rows with equal
\* inputs give equal outputs.
ForwardBinding ==
    Called("forward") =>
        LET pv == last.param_values
            n == BatchSize
            O == Prod(output_shape)
            out(r) == SubSeq(last.result.data, (r - 1) * O + 1, r * O)
        IN /\ \A i \in 1..Len(weight_params) :
                  pv[weight_params[i]] = Repeat(last.weights[i], n)
           /\ \A i \in 1..Len(input_params) :
                  pv[input_params[i]] = [r \in 1..n |-> last.input_data[r][i]]
           /\ (last.result.ok /\ last.result.shape[1] = n) =>
                  \A r1, r2 \in 1..n :
                      last.input_data[r1] = last.input_data[r2] => out(r1) = out(r2)

\* C8: in a returned gradient pair, entry j of the input gradient's last axis is
\* the derivative with respect to input_params[j] and entry j of the weight
\* gradient's last axis the derivative with respect to weight_params[j], for
\* every row and every output component.
GradientColumns ==
    ((Called("backward") \/ Called("backward_batch")) /\ last.result.ok) =>
        \A r \in 1..BatchSize, o \in 1..Prod(output_shape) :
            /\ \A j \in 1..num_inputs :
                   Entry(last.result.input_grad, num_inputs, r, o, j)
                       = Derivative(input_params[j], RowBinding(r), o)
            /\ \A j \in 1..num_weights :
                   Entry(last.result.weights_grad, num_weights, r, o, j)
                       = Derivative(weight_params[j], RowBinding(r), o)

\* C8, for the operators whose evaluation is a scalar.
GradientColumnsScalar ==
    (/\ Called("backward") \/ Called("backward_batch")
     /\ last.result.ok
     /\ EvalShape(operator) = <<>>) =>
        \A r \in 1..BatchSize, o \in 1..Prod(output_shape) :
            /\ \A j \in 1..num_inputs :
                   Entry(last.result.input_grad, num_inputs, r, o, j)
                       = Derivative(input_params[j], RowBinding(r), o)
            /\ \A j \in 1..num_weights :
                   Entry(last.result.weights_grad, num_weights, r, o, j)
                       = Derivative(weight_params[j], RowBinding(r), o)

\* C9: in a constructed adapter no parameter is in both input_params and
\* weight_params, and the binding of a call has num_inputs + num_weights keys.
DisjointParams ==
    pc = "ready" =>
        /\ Range(input_params) \cap Range(weight_params) = {}
        /\ (last.op \in {"forward", "backward_batch"}) =>
               Cardinality(DOMAIN last.param_values) = num_inputs + num_weights

-----------------------------------------------------------------------------
(* Shape inference, stated apart from the code *)

\* The shape a composite would have were its children's shapes all that of the
\* first child (a leaf: (1,); no child: combo_fn of an empty array).
RECURSIVE NominalShape(_)
NominalShape(op) ==
    IF op.tag # "ListOp" THEN <<1>>
    ELSE IF op.oplist = <<>> THEN ComboShape(op.combo_fn, <<0>>)
    ELSE LET first == NominalShape(op.oplist[1])
         IN IF first = <<1>>
            THEN ComboShape(op.combo_fn, <<Len(op.oplist)>>)
            ELSE ComboShape(op.combo_fn, <<Len(op.oplist)>> \o first)

\* Some composite, at some depth, has children of unequal shapes.
RECURSIVE UnequalChildren(_)
UnequalChildren(op) ==
    /\ op.tag = "ListOp"
    /\ \E i \in 1..Len(op.oplist) :
           \/ UnequalChildren(op.oplist[i])
           \/ NominalShape(op.oplist[i]) # NominalShape(op.oplist[1])

\* Some composite, at some depth, has no children.
RECURSIVE EmptyComposite(_)
EmptyComposite(op) ==
    /\ op.tag = "ListOp"
    /\ \/ op.oplist = <<>>
       \/ \E i \in 1..Len(op.oplist) : EmptyComposite(op.oplist[i])

\* The children of the top composite reversed, and rotated by one.
Reversed(op) ==
    IF op.tag # "ListOp" THEN op
    ELSE [op EXCEPT !.oplist =
             [i \in 1..Len(op.oplist) |-> op.oplist[Len(op.oplist) + 1 - i]]]
Rotated(op) ==
    IF op.tag # "ListOp" THEN op
    ELSE [op EXCEPT !.oplist =
             [i \in 1..Len(op.oplist) |-> op.oplist[(i % Len(op.oplist)) + 1]]]

\* The same at every depth.
RECURSIVE Mirror(_)
Mirror(op) ==
    IF op.tag # "ListOp" THEN op
    ELSE [op EXCEPT !.oplist =
             [i \in 1..Len(op.oplist) |-> Mirror(op.oplist[Len(op.oplist) + 1 - i])]]
RECURSIVE RotatedAll(_)
RotatedAll(op) ==
    IF op.tag # "ListOp" THEN op
    ELSE [op EXCEPT !.oplist =
             [i \in 1..Len(op.oplist) |->
                 RotatedAll(op.oplist[(i % Len(op.oplist)) + 1])]]

Reorderings(op) == {Reversed(op), Rotated(op), Mirror(op), RotatedAll(op)}

Constructed == pc \in {"ready", "failed"}

\* __init__ raised the shape-inconsistency error and never reached the base
\* class's initialiser.
ShapeErrorRaised ==
    /\ pc = "failed"
    /\ raised = "QiskitMachineLearningError"
    /\ num_inputs = None /\ num_weights = None /\ output_shape = None

\* Inference succeeded, with a result the order of the children does not change.
ShapeInferred ==
    /\ pc = "ready"
    /\ \A other \in Reorderings(operator) :
           GetOutputShapeFromOp(other) = ShapeOk(output_shape)

\* C5 as stated: construction fails with the shape-inconsistency error, and no
\* adapter is produced, whenever some composite at some depth has children of
\* unequal shapes; otherwise inference succeeds, whatever the children's order.
ShapeInference ==
    Constructed =>
        IF UnequalChildren(operator) THEN ShapeErrorRaised ELSE ShapeInferred

\* C5 as amended: the same for operators all of whose composites have at least
\* one child; an operator with a childless composite fails construction too,
\* with IndexError or the shape-inconsistency error, and no adapter is produced.
ShapeInferenceNonEmpty ==
    Constructed =>
        IF EmptyComposite(operator)
        THEN /\ pc = "failed"
             /\ raised \in {"IndexError", "QiskitMachineLearningError"}
             /\ num_inputs = None /\ num_weights = None /\ output_shape = None
        ELSE IF UnequalChildren(operator) THEN ShapeErrorRaised ELSE ShapeInferred

\* C5's case: the unequal shapes are those of a nested composite's children.
NestedShapeError ==
    /\ ShapeErrorRaised
    /\ ~EmptyComposite(operator)
    /\ \E i \in 1..Len(operator.oplist) : UnequalChildren(operator.oplist[i])

-----------------------------------------------------------------------------
(* Calls leave the adapter alone *)

\* C7: on an adapter built without an execution context, every call returns
\* what the handler computes from the fields as __init__ left them and the
\* call's own arguments, whatever calls came before; and a call that repeats
\* the call before it returns the same result.
Deterministic ==
    (pc = "ready" /\ supplied = None /\ last.op # "none") =>
        /\ last.result =
               ResultOf(last.op, constructed, last.input_data, last.weights)
        /\ repeat # "differs"

\* C7's case: a backward call repeated on an adapter without execution context.
RepeatedBackward ==
    /\ Called("backward")
    /\ supplied = None
    /\ repeat = "same"
    /\ last.result.ok

\* C10: in a constructed adapter, whatever calls were made, both samplers are
\* set when an execution context or a backend was supplied, and are two
\* instances; neither is set otherwise; and every field is as __init__ left it.
SamplersAndFieldsFixed ==
    pc = "ready" =>
        /\ IF supplied # None
           THEN /\ circuit_sampler # NoSampler
                /\ gradient_sampler # NoSampler
                /\ circuit_sampler # gradient_sampler
           ELSE /\ circuit_sampler = NoSampler
                /\ gradient_sampler = NoSampler
        /\ Self = constructed

\* C10's case: an adapter built from a raw backend, after a forward and a
\* backward call have gone through its two samplers.
BothSamplersUsed ==
    /\ Called("backward")
    /\ supplied = "Backend"
    /\ sampler_cache[circuit_sampler] = "forward_operator"
    /\ sampler_cache[gradient_sampler] = "gradient_operator"

=============================================================================
